---- MODULE Spec2Model ----
(***************************************************************************)
(* A model of three parts of the repository:                               *)
(*   - ifcopenshell.api.georeference.edit_georeferencing (Usecase.execute  *)
(*     and Usecase.set_true_north),                                        *)
(*   - blenderbim.tool.Style: the style property mapper                    *)
(*     (get_shading_style_data_from_props, get_texture_style_data_from_    *)
(*     props, set_surface_style_props), the shading classifier             *)
(*     (get_surface_rendering_attributes), get_styled_items, get_style and *)
(*     import_presentation_styles.                                         *)
(* Each adapter has its own specification (SpecGeo, SpecStyle, SpecShade,  *)
(* SpecItems, SpecCatalogue) over its own variables; the other variables   *)
(* stay at rest.                                                           *)
(***************************************************************************)
EXTENDS Integers, Sequences, FiniteSets, TLC

VARIABLES
    \* ---- the IFC file edit_georeferencing works on
    schema,       \* file.schema
    hasProject,   \* whether file.by_type("IfcProject") is non-empty
    contexts,     \* the root IfcGeometricRepresentationContext entities, in file order
    directions,   \* the IfcDirection entities: id -> DirectionRatios (<<>>: not set)
    extRefs,      \* per initial direction: how many non-context entities refer to it
    coordOps,     \* the IfcCoordinateOperation entities, in file order
    projCRS,      \* the IfcProjectedCRS entities, in file order
    psetCRS,      \* ePSet_ProjectedCRS on the project: <<>> or <<properties>>
    psetMap,      \* ePSet_MapConversion on the project: <<>> or <<properties>>
    lastCall,     \* the last edit_georeferencing call: its settings and how it ended
    writeLog      \* the referrer counts of the directions the last call wrote, as
                  \* get_inverse gave them at the moment of each DirectionRatios assignment

\* ---- the style panel (bpy.context.scene.BIMStylesProperties) and the edited style
VARIABLES
    props,        \* the UI property block, update_graph included
    style,        \* the IfcSurfaceStyle being edited, as the loader reads it
    styleOp,      \* the last operation on the panel and how it ended
    snap          \* the non-derived UI fields as they were at the last export

\* ---- the shading classifier and the styled-item walk
VARIABLES
    obj,          \* the material handed to get_surface_rendering_attributes
    attributes,   \* <<>> or <<the record the classifier returned for obj>>
    doc,          \* the document around the style handed to get_styled_items
    styledItems,  \* <<>> or <<the list get_styled_items returned>>
    \* ---- the document and the UI list of the style catalogue
    ifcFile,      \* tool.Ifc.get(): whether a file is loaded and its styles, by id
    ifc_style_id, \* obj.BIMMaterialProperties.ifc_style_id (0: unset)
    styleLookup,  \* <<>> or <<how the last get_style call ended>>
    uiStyles,     \* BIMStylesProperties.styles
    imported      \* <<>> or <<the style_type of the last import_presentation_styles>>

geoVars == <<schema, hasProject, contexts, directions, extRefs, coordOps, projCRS,
             psetCRS, psetMap, lastCall, writeLog>>

styleVars == <<props, style, styleOp, snap>>

catVars == <<ifcFile, ifc_style_id, styleLookup, uiStyles, imported>>
shadeVars == <<obj, attributes, doc, styledItems, catVars>>

vars == <<geoVars, styleVars, shadeVars>>

\* ------------------------------------------------------------------ bounds
MaxContexts == 2
MaxEntities == 2
MaxTextures == 2
MaxEdits == 1
MaxStyledItems == 2
MaxItems == 3
MaxStyles == 3

\* ------------------------------------------------------------- mappings
EmptyMap == [k \in {} |-> 0]

\* dict.update / a run of setattr: the keys of new win, the other keys keep
Merge(old, new) ==
    [k \in (DOMAIN old) \cup (DOMAIN new) |-> IF k \in DOMAIN new THEN new[k] ELSE old[k]]

\* ================================================================ georeference

CoordOpAttrs == {"Eastings", "Scale"}
CrsAttrs == {"Name", "Description"}

\* The arguments of a call. true_north is None, a list or (as the signature
\* documents) a tuple; "none" stands for None and for the empty sequence,
\* which line 96 both turn into [].
TrueNorthInputs ==
    { [kind |-> "none", xy |-> <<>>],
      [kind |-> "list", xy |-> <<0, 1>>],
      [kind |-> "list", xy |-> <<1, 0, 1>>],
      [kind |-> "tuple", xy |-> <<0, 1>>] }

CoordOpInputs == { EmptyMap, [k \in {"Eastings"} |-> 2] }
CrsInputs == { EmptyMap, [k \in {"Name"} |-> "B"] }

NoCall == [coordinate_operation |-> EmptyMap, projected_crs |-> EmptyMap,
           true_north |-> [kind |-> "none", xy |-> <<>>], outcome |-> "none",
           repeated |-> FALSE]

\* len(file.get_inverse(direction)): the entities that refer to the direction
InverseCount(ctxs, d) ==
    Cardinality({i \in DOMAIN ctxs : ctxs[i].TrueNorth = d})
        + (IF d \in DOMAIN extRefs THEN extRefs[d] ELSE 0)

\* (variant) TrueNorth is replaced only when it is unset: a shared one is written in place
NeedsNewDirection_NoCopy(ctxs, i) == ctxs[i].TrueNorth = 0

\* (variant) TrueNorth is replaced on every call
NeedsNewDirection_Always(ctxs, i) == TRUE

\* lines 138-142: whether context i gets a newly created IfcDirection
NeedsNewDirection(ctxs, i) ==
    IF ctxs[i].TrueNorth # 0
    THEN InverseCount(ctxs, ctxs[i].TrueNorth) # 1
    ELSE TRUE

\* true_north[0:2]
Slice2(xy) == SubSeq(xy, 1, IF Len(xy) < 2 THEN Len(xy) ELSE 2)

\* lines 148-151: tuple + list raises TypeError, list + list concatenates
RatiosRaise(tn, dim) == dim # 2 /\ tn.kind = "tuple"

NewRatios(tn, dim) ==
    IF dim = 2 THEN Slice2(tn.xy) ELSE Slice2(tn.xy) \o <<0>>

\* lines 137-151: the loop over the root contexts, from context i on
RECURSIVE TrueNorthLoop(_, _, _, _, _)
TrueNorthLoop(tn, i, ctxs, dirs, log) ==
    IF i > Len(ctxs)
    THEN [ctxs |-> ctxs, dirs |-> dirs, log |-> log, raised |-> FALSE]
    ELSE LET fresh == NeedsNewDirection(ctxs, i)
             d == IF fresh THEN Len(dirs) + 1 ELSE ctxs[i].TrueNorth
             ctxs1 == IF fresh THEN [ctxs EXCEPT ![i].TrueNorth = d] ELSE ctxs
             dirs1 == IF fresh THEN Append(dirs, <<>>) ELSE dirs
         IN  IF RatiosRaise(tn, ctxs[i].dim)
             THEN [ctxs |-> ctxs1, dirs |-> dirs1, log |-> log, raised |-> TRUE]
             ELSE TrueNorthLoop(tn, i + 1, ctxs1,
                                [dirs1 EXCEPT ![d] = NewRatios(tn, ctxs[i].dim)],
                                log \cup {InverseCount(ctxs1, d)})

\* (variant) the true-north step runs whatever true_north is
SkipTrueNorth_Never(tn) == FALSE

\* (variant) the true-north step runs when true_north is empty and only then
SkipTrueNorth_WhenSet(tn) == tn.kind # "none"

\* (variant) the true-north step never runs
SkipTrueNorth_Always(tn) == TRUE

\* line 135: not self.settings["true_north"]
SkipTrueNorth(tn) == tn.kind = "none" \/ tn.xy = <<>>

\* Usecase.set_true_north
set_true_north(tn) ==
    IF SkipTrueNorth(tn)
    THEN [ctxs |-> contexts, dirs |-> directions, log |-> {}, raised |-> FALSE]
    ELSE TrueNorthLoop(tn, 1, contexts, directions, {})

\* ifcopenshell.api.pset.edit_pset on an existing property set
edit_pset(pset, properties) == <<Merge(pset[1], properties)>>

\* (variant) a missing property set is created and filled
EditIfPresent_Create(pset, properties) ==
    IF pset # <<>> THEN edit_pset(pset, properties) ELSE <<properties>>

\* lines 108-117 and 118-125: the property set is edited only if get_pset finds it
EditIfPresent(pset, properties) ==
    IF pset # <<>> THEN edit_pset(pset, properties) ELSE pset

\* (variant) the attributes that are not named are overwritten as well
SetAttrs_Replace(entity, settings) ==
    IF settings = EmptyMap THEN entity
    ELSE [k \in DOMAIN entity |->
            IF k \in DOMAIN settings THEN settings[k]
            ELSE settings[CHOOSE j \in DOMAIN settings : TRUE]]

\* lines 129-132: setattr for each key of the mapping
SetAttrs(entity, settings) == Merge(entity, settings)

\* Usecase.execute: the file after the call and how the call ended
execute(co, crs, tn) ==
    LET t == set_true_north(tn)
        base == [ctxs |-> t.ctxs, dirs |-> t.dirs, log |-> t.log,
                 coordOps |-> coordOps, projCRS |-> projCRS,
                 psetCRS |-> psetCRS, psetMap |-> psetMap, outcome |-> "ok"]
    IN  IF t.raised THEN [base EXCEPT !.outcome = "TypeError"]
        ELSE IF schema = "IFC2X3"
        THEN IF ~hasProject THEN base
             ELSE [base EXCEPT !.psetCRS = EditIfPresent(psetCRS, crs),
                               !.psetMap = EditIfPresent(psetMap, co)]
        ELSE IF coordOps = <<>> \/ projCRS = <<>>
        THEN [base EXCEPT !.outcome = "IndexError"]
        ELSE [base EXCEPT !.coordOps = [coordOps EXCEPT ![1] = SetAttrs(coordOps[1], co)],
                          !.projCRS = [projCRS EXCEPT ![1] = SetAttrs(projCRS[1], crs)]]

\* edit_georeferencing(file, coordinate_operation, projected_crs, true_north)
edit_georeferencing(co, crs, tn) ==
    \E r \in {execute(co, crs, tn)} :
        /\ contexts' = r.ctxs
        /\ directions' = r.dirs
        /\ coordOps' = r.coordOps
        /\ projCRS' = r.projCRS
        /\ psetCRS' = r.psetCRS
        /\ psetMap' = r.psetMap
        /\ writeLog' = r.log
        /\ lastCall' = [coordinate_operation |-> co, projected_crs |-> crs,
                        true_north |-> tn, outcome |-> r.outcome,
                        \* whether the call before this one gave the same true_north
                        repeated |-> (lastCall.outcome # "none"
                                        /\ lastCall.true_north = tn)]
        /\ UNCHANGED <<schema, hasProject, extRefs>>
        /\ UNCHANGED <<styleVars, shadeVars>>

\* the file untouched (the state of the specifications of other parts)
GeoAtRest ==
    /\ schema = "IFC4" /\ hasProject = TRUE
    /\ contexts = <<>> /\ directions = <<>> /\ extRefs = <<>>
    /\ coordOps = <<>> /\ projCRS = <<>> /\ psetCRS = <<>> /\ psetMap = <<>>
    /\ lastCall = NoCall /\ writeLog = {}

\* ================================================================ style panel

\* An optional value (None or a value) is <<>> or <<value>>.
None == <<>>
Some(v) == <<v>>

\* STYLE_PROPS_MAP, in the order of the dict (lines 34-41)
STYLE_PROPS_MAP ==
    << <<"reflectance_method", "ReflectanceMethod">>,
       <<"diffuse_colour", "DiffuseColour">>,
       <<"surface_colour", "SurfaceColour">>,
       <<"transparency", "Transparency">>,
       <<"specular_highlight", "SpecularHighlight">>,
       <<"specular_colour", "SpecularColour">> >>

IfcAttrs == {STYLE_PROPS_MAP[i][2] : i \in DOMAIN STYLE_PROPS_MAP}

\* f"is_{prop_blender}_null", f"{prop_blender}_class", f"{prop_blender}_ratio"
NullPropName(prop_blender) ==
    CASE prop_blender = "reflectance_method" -> "is_reflectance_method_null"
      [] prop_blender = "diffuse_colour" -> "is_diffuse_colour_null"
      [] prop_blender = "surface_colour" -> "is_surface_colour_null"
      [] prop_blender = "transparency" -> "is_transparency_null"
      [] prop_blender = "specular_highlight" -> "is_specular_highlight_null"
      [] prop_blender = "specular_colour" -> "is_specular_colour_null"

ClassPropName(prop_blender) ==
    CASE prop_blender = "reflectance_method" -> "reflectance_method_class"
      [] prop_blender = "diffuse_colour" -> "diffuse_colour_class"
      [] prop_blender = "surface_colour" -> "surface_colour_class"
      [] prop_blender = "transparency" -> "transparency_class"
      [] prop_blender = "specular_highlight" -> "specular_highlight_class"
      [] prop_blender = "specular_colour" -> "specular_colour_class"

RatioPropName(prop_blender) ==
    CASE prop_blender = "diffuse_colour" -> "diffuse_colour_ratio"
      [] prop_blender = "specular_colour" -> "specular_colour_ratio"
      [] OTHER -> "no_ratio"

\* The declared fields of BIMStylesProperties with their Blender defaults
\* (tool.Blender.get_blender_prop_default_value); a fresh panel holds them.
DefaultProps ==
    [ update_graph |-> TRUE,
      reflectance_method |-> "NOTDEFINED",
      surface_colour |-> "black",
      transparency |-> 0,
      is_diffuse_colour_null |-> FALSE,
      diffuse_colour_class |-> "IfcColourRgb",
      diffuse_colour |-> "black",
      diffuse_colour_ratio |-> 0,
      is_specular_colour_null |-> FALSE,
      specular_colour_class |-> "IfcColourRgb",
      specular_colour |-> "black",
      specular_colour_ratio |-> 0,
      is_specular_highlight_null |-> FALSE,
      specular_highlight |-> 0,
      textures |-> <<>>,
      uv_mode |-> "UV" ]

\* props.textures.add(): a new entry with the defaults of its fields
DefaultTexture == [mode |-> "DIFFUSE", path |-> ""]

\* an assignment Blender rejects: a property cannot hold None
WriteRaises(value) == value = "NULL"

\* dict.get(key, None)
Get(d, key) == IF key \in DOMAIN d THEN d[key] ELSE None

\* set_prop (lines 184-187): None is replaced by the property's default
set_prop(p, prop_blender, prop_value) ==
    [p EXCEPT ![prop_blender] =
        IF prop_value = None THEN DefaultProps[prop_blender] ELSE prop_value[1]]

\* lines 194-218: one round of the loop over STYLE_PROPS_MAP
SetStyleProp(p, style_data, prop_blender, prop_ifc) ==
    LET prop_value == Get(style_data, prop_ifc)
        is_null == prop_value = None
        available_props == DOMAIN p
        p1 == IF NullPropName(prop_blender) \in available_props
              THEN set_prop(p, NullPropName(prop_blender), Some(is_null))
              ELSE p
        prop_class == IF prop_value = None THEN None ELSE Some(prop_value[1][1])
        class_value == IF prop_value = None THEN None ELSE Some(prop_value[1][2])
        p2 == set_prop(p1, ClassPropName(prop_blender), prop_class)
    IN  IF ClassPropName(prop_blender) \in available_props
        THEN IF prop_class = Some("IfcColourRgb")
             THEN set_prop(set_prop(p2, prop_blender, class_value),
                           RatioPropName(prop_blender), None)
             ELSE set_prop(set_prop(p2, RatioPropName(prop_blender), class_value),
                           prop_blender, None)
        ELSE set_prop(p1, prop_blender, prop_value)

\* lines 193-218: the loop over STYLE_PROPS_MAP, from entry i on
RECURSIVE SetStyleProps(_, _, _)
SetStyleProps(p, style_data, i) ==
    IF i > Len(STYLE_PROPS_MAP) THEN p
    ELSE SetStyleProps(SetStyleProp(p, style_data, STYLE_PROPS_MAP[i][1], STYLE_PROPS_MAP[i][2]),
                       style_data, i + 1)

\* (variant) the mode of the first texture is kept
NextUvMode_First(uv_mode, texture_data) ==
    IF uv_mode = None THEN Some(texture_data.uv_mode) ELSE uv_mode

\* line 229: uv_mode = texture_data["uv_mode"]
NextUvMode(uv_mode, texture_data) == Some(texture_data.uv_mode)

\* lines 223-229: the loop over texture_style.Textures, from texture i on;
\* it ends early when an assignment raises
RECURSIVE AddTextures(_, _, _, _)
AddTextures(Textures, i, texs, uv_mode) ==
    IF i > Len(Textures) THEN [textures |-> texs, uv_mode |-> uv_mode, raised |-> FALSE]
    ELSE LET texture_data == Textures[i]
         IN  IF WriteRaises(texture_data.Mode)
             THEN [textures |-> Append(texs, DefaultTexture), uv_mode |-> uv_mode,
                   raised |-> TRUE]
             ELSE AddTextures(Textures, i + 1,
                              Append(texs, [mode |-> texture_data.Mode,
                                            path |-> texture_data.URLReference]),
                              NextUvMode(uv_mode, texture_data))

\* line 231
RestoreFlag(p, prev_update_graph_value) ==
    [p EXCEPT !.update_graph = prev_update_graph_value]

\* line 230: uv_mode if uv_mode else "UV"
FinalUvMode(uv_mode) == IF uv_mode = None \/ uv_mode = Some("") THEN "UV" ELSE uv_mode[1]

\* the values update_graph has when the rounds of the loop over
\* STYLE_PROPS_MAP, from entry i on, write their fields
RECURSIVE FlagsInLoop(_, _, _)
FlagsInLoop(p, style_data, i) ==
    IF i > Len(STYLE_PROPS_MAP) THEN {}
    ELSE {p.update_graph}
           \cup FlagsInLoop(SetStyleProp(p, style_data, STYLE_PROPS_MAP[i][1],
                                         STYLE_PROPS_MAP[i][2]),
                            style_data, i + 1)

\* (variant) the flag is not touched before the writes
SuspendUpdates_Not(p) == p

\* line 175: props["update_graph"] = False
SuspendUpdates(p) == [p EXCEPT !.update_graph = FALSE]

\* Style.set_surface_style_props: the panel after the call, whether it raised,
\* and the values update_graph had at the writes (the fields, the texture
\* list, uv_mode)
set_surface_style_props ==
    LET prev_update_graph_value == props.update_graph
        p0 == SuspendUpdates(props)
        \* lines 177-181, 191-192
        data0 == IF style.surface_style THEN style.data ELSE EmptyMap
        style_data == IF Get(data0, "ReflectanceMethod") = None
                      THEN Merge(data0, [k \in {"ReflectanceMethod"} |-> Some("NOTDEFINED")])
                      ELSE data0
        p1 == SetStyleProps(p0, style_data, 1)
        t == IF style.texture_style
             THEN AddTextures(style.Textures, 1, <<>>, None)
             ELSE [textures |-> <<>>, uv_mode |-> None, raised |-> FALSE]
        p2 == [p1 EXCEPT !.textures = t.textures]
        flags == FlagsInLoop(p0, style_data, 1) \cup {p1.update_graph}
    IN  IF t.raised
        THEN [props |-> p2, raised |-> TRUE, flags |-> flags]
        ELSE [props |-> RestoreFlag([p2 EXCEPT !.uv_mode = FinalUvMode(t.uv_mode)],
                                    prev_update_graph_value),
              raised |-> FALSE, flags |-> flags \cup {p2.update_graph}]

\* lines 126-143: the value exported for one entry of STYLE_PROPS_MAP
ShadingValue(p, prop_blender) ==
    IF ClassPropName(prop_blender) \in DOMAIN p
    THEN LET prop_class == p[ClassPropName(prop_blender)]
         IN  <<prop_class, IF prop_class = "IfcColourRgb"
                           THEN p[prop_blender]
                           ELSE p[RatioPropName(prop_blender)]>>
    ELSE p[prop_blender]

\* the UI property a document attribute is exported from
BlenderName(prop_ifc) ==
    LET i == CHOOSE j \in DOMAIN STYLE_PROPS_MAP : STYLE_PROPS_MAP[j][2] = prop_ifc
    IN  STYLE_PROPS_MAP[i][1]

\* Style.get_shading_style_data_from_props
get_shading_style_data_from_props ==
    [prop_ifc \in IfcAttrs |-> ShadingValue(props, BlenderName(prop_ifc))]

\* Style.get_texture_style_data_from_props: the textures that have a path
get_texture_style_data_from_props ==
    LET withPath == SelectSeq(props.textures, LAMBDA texture : texture.path # "")
    IN  [i \in 1..Len(withPath) |->
            [Mode |-> withPath[i].mode, URLReference |-> withPath[i].path,
             uv_mode |-> props.uv_mode]]

\* the fields of the panel that are not derived from others: uv_mode, the
\* null flags and the variant-class selectors
NonDerivedNames ==
    {"uv_mode"} \cup
    ( ( {NullPropName(STYLE_PROPS_MAP[i][1]) : i \in DOMAIN STYLE_PROPS_MAP}
          \cup {ClassPropName(STYLE_PROPS_MAP[i][1]) : i \in DOMAIN STYLE_PROPS_MAP} )
      \cap DOMAIN DefaultProps )

NonDerived(p) == [name \in NonDerivedNames |-> p[name]]

NoStyle == [surface_style |-> FALSE, data |-> EmptyMap,
            texture_style |-> FALSE, Textures |-> <<>>]

NoStyleOp == [name |-> "none", raised |-> FALSE, roundTrip |-> FALSE, edits |-> 0,
              flags |-> {}]

\* the style panel untouched (the state of the specifications of other parts)
StyleAtRest ==
    /\ props = DefaultProps
    /\ style = NoStyle
    /\ styleOp = NoStyleOp
    /\ snap = NonDerived(DefaultProps)

\* The operator behind the panel's import: set_surface_style_props on the
\* style being edited.
ImportStyle ==
    \E r \in {set_surface_style_props} :
        /\ props' = r.props
        /\ styleOp' = [styleOp EXCEPT !.name = "set_surface_style_props",
                                      !.raised = r.raised,
                                      !.roundTrip = (styleOp.name = "export" /\ ~r.raised),
                                      \* update_graph as the writes of the call saw it
                                      !.flags = r.flags]
        /\ UNCHANGED <<style, snap>>
        /\ UNCHANGED <<geoVars, shadeVars>>

\* The operator behind the panel's save: the exported mappings are handed to
\* the document, which then holds them as the edited style's elements.
ExportStyle ==
    \E shading \in {get_shading_style_data_from_props},
       textures \in {get_texture_style_data_from_props} :
        /\ style' = [surface_style |-> TRUE,
                     data |-> [a \in IfcAttrs |-> Some(shading[a])],
                     texture_style |-> (textures # <<>>),
                     Textures |-> textures]
        /\ snap' = NonDerived(props)
        /\ styleOp' = [styleOp EXCEPT !.name = "export", !.raised = FALSE,
                                      !.roundTrip = FALSE, !.flags = {}]
        /\ UNCHANGED props
        /\ UNCHANGED <<geoVars, shadeVars>>

\* The user changes one field of the panel.
UserSets(name, value) ==
    /\ styleOp.edits < MaxEdits
    /\ props[name] # value
    /\ props' = [props EXCEPT ![name] = value]
    /\ styleOp' = [name |-> "user", raised |-> FALSE, roundTrip |-> FALSE,
                   edits |-> styleOp.edits + 1, flags |-> {}]
    /\ UNCHANGED <<style, snap>>
    /\ UNCHANGED <<geoVars, shadeVars>>

UserEdit ==
    \/ \E name \in {"is_diffuse_colour_null", "is_specular_colour_null",
                    "is_specular_highlight_null", "update_graph"} :
          UserSets(name, ~props[name])
    \/ \E name \in {"diffuse_colour_class", "specular_colour_class"},
          value \in {"IfcColourRgb", "IfcNormalisedRatioMeasure"} :
          UserSets(name, value)
    \/ \E value \in {"UV", "Generated"} : UserSets("uv_mode", value)
    \/ /\ Len(props.textures) < MaxTextures
       /\ \E path \in {"", "a.png"} :
            UserSets("textures", Append(props.textures, [mode |-> "DIFFUSE", path |-> path]))

\* what surface_style_to_dict gives for the style elements a file can hold
SurfaceStyles ==
    { [surface_style |-> FALSE, data |-> EmptyMap],
      \* an IfcSurfaceStyleShading
      [surface_style |-> TRUE,
       data |-> [a \in {"SurfaceColour", "Transparency"} |->
                    IF a = "SurfaceColour" THEN Some("red") ELSE Some(1)]],
      \* an IfcSurfaceStyleRendering with its optional attributes unset
      [surface_style |-> TRUE,
       data |-> [a \in IfcAttrs |->
                    CASE a = "SurfaceColour" -> Some("red")
                      [] a = "ReflectanceMethod" -> Some("FLAT")
                      [] OTHER -> None]],
      \* an IfcSurfaceStyleRendering with every attribute set
      [surface_style |-> TRUE,
       data |-> [a \in IfcAttrs |->
                    CASE a = "SurfaceColour" -> Some("red")
                      [] a = "ReflectanceMethod" -> Some("FLAT")
                      [] a = "DiffuseColour" -> Some(<<"IfcColourRgb", "red">>)
                      [] a = "SpecularColour" -> Some(<<"IfcNormalisedRatioMeasure", 1>>)
                      [] OTHER -> Some(1)]] }

\* what surface_texture_to_dict gives for a texture; Mode is optional in the schema
TextureSet == [Mode : {"DIFFUSE", "NULL"}, URLReference : {"a.png"},
               uv_mode : {"", "UV", "Generated"}]

\* ================================================================ shading classifier

\* Colours are RGBA; numbers are in thousandths, the BSDF inputs that the
\* classifier rounds in ten-thousandths.
ViewportColors == { <<800, 800, 800, 1000>>, <<200, 400, 600, 250>> }
PanelDiffuseColor == <<100, 100, 100, 1000>>
RgbNodeColor == <<0, 1000, 1000, 1000>>

NodeTypes == {"MIX_SHADER", "ADD_SHADER", "BSDF_PRINCIPLED", "BSDF_GLOSSY", "BSDF_DIFFUSE",
              "BSDF_GLASS", "EMISSION", "BSDF_TRANSPARENT", "LIGHT_PATH", "RGB", "TEX_IMAGE"}

\* the node types the classifier looks up in bsdfs
BsdfTypes == {"BSDF_PRINCIPLED", "BSDF_GLOSSY", "BSDF_DIFFUSE", "BSDF_GLASS", "EMISSION"}

\* bsdf.inputs["Color"].default_value (for a principled BSDF: "Base Color")
NodeColor(type) ==
    CASE type = "BSDF_PRINCIPLED" -> <<1000, 0, 1000, 1000>>
      [] type = "BSDF_GLOSSY" -> <<1000, 0, 0, 1000>>
      [] type = "BSDF_DIFFUSE" -> <<0, 1000, 0, 1000>>
      [] type = "BSDF_GLASS" -> <<0, 0, 1000, 1000>>
      [] type = "EMISSION" -> <<1000, 1000, 0, 1000>>

\* bsdf.inputs["Roughness"].default_value, in ten-thousandths
NodeRoughness(o, type) ==
    CASE type = "BSDF_PRINCIPLED" -> o.roughness
      [] type = "BSDF_GLOSSY" -> 1004
      [] type = "BSDF_DIFFUSE" -> 3006
      [] type = "BSDF_GLASS" -> 7001

\* round(x, 3) of a value given in ten-thousandths, the result in thousandths
\* (a tie goes to the even neighbour)
Round3(x) ==
    LET q == x \div 10
        r == x % 10
    IN  IF r > 5 \/ (r = 5 /\ q % 2 = 1) THEN q + 1 ELSE q

\* color_to_ifc_format (lines 237-243): the alpha is dropped
color_to_ifc_format(color) ==
    [Name |-> "None", Red |-> color[1], Green |-> color[2], Blue |-> color[3]]

\* get_input_node (lines 245-249) on an input with at most one link, given
\* as the type of the node it comes from ("NONE": not linked)
get_input_node(from_type, of_type) ==
    IF of_type # "ANY"
    THEN IF from_type = of_type THEN from_type ELSE "NONE"
    ELSE from_type

\* lines 280-285: the MIX_SHADER + LIGHT_PATH + BSDF_TRANSPARENT + RGB/TEX pattern
FlatPattern(o) ==
    /\ get_input_node(o.fac, "LIGHT_PATH") # "NONE"
    /\ get_input_node(o.shader1, "BSDF_TRANSPARENT") # "NONE"
    /\ get_input_node(o.shader2, "ANY") # "NONE"
    /\ get_input_node(o.shader2, "ANY") \in {"RGB", "TEX_IMAGE"}

\* lines 299-305: a principled BSDF, or an add-shader over one
PrincipledAtSurface(o) ==
    /\ o.surface # "NONE"
    /\ \/ o.surface = "BSDF_PRINCIPLED"
       \/ /\ o.surface = "ADD_SHADER"
          /\ get_input_node(o.add1, "BSDF_PRINCIPLED") # "NONE"

\* (variant) the tentative transparency of the viewport alpha is kept
PrincipledAttributes_ViewportAlpha(o, base) ==
    [diffuse_color |-> NodeColor("BSDF_PRINCIPLED"),
     attributes |-> Merge(base,
        [k \in {"ReflectanceMethod", "SpecularColour", "SpecularHighlight"} |->
            CASE k = "ReflectanceMethod" ->
                    IF o.ifc_schema # "IFC4X3" THEN "NOTDEFINED" ELSE "PHYSICAL"
              [] k = "SpecularColour" -> Round3(o.metallic)
              [] k = "SpecularHighlight" -> Some(Round3(NodeRoughness(o, "BSDF_PRINCIPLED")))])]

\* lines 307-319 and 368-381
PrincipledAttributes(o, base) ==
    [diffuse_color |-> NodeColor("BSDF_PRINCIPLED"),
     attributes |-> Merge(base,
        [k \in {"ReflectanceMethod", "SpecularColour", "SpecularHighlight", "Transparency"} |->
            CASE k = "ReflectanceMethod" ->
                    IF o.ifc_schema # "IFC4X3" THEN "NOTDEFINED" ELSE "PHYSICAL"
              [] k = "SpecularColour" -> Round3(o.metallic)
              [] k = "SpecularHighlight" -> Some(Round3(NodeRoughness(o, "BSDF_PRINCIPLED")))
              [] k = "Transparency" -> 1000 - o.alpha])]

\* (variant) a linked glass BSDF decides before the node of the rule
BsdfAttributes_GlassFirst(o, base, type, method) ==
    LET t == IF "BSDF_GLASS" \in o.linked THEN "BSDF_GLASS" ELSE type
        m == IF "BSDF_GLASS" \in o.linked THEN "GLASS" ELSE method
    IN  [diffuse_color |-> NodeColor(t),
         attributes |-> Merge(base,
            [k \in {"ReflectanceMethod", "SpecularHighlight"} |->
                IF k = "ReflectanceMethod" THEN m
                ELSE Some(Round3(NodeRoughness(o, t)))])]

\* lines 321-352: a glossy, diffuse or glass BSDF
BsdfAttributes(o, base, type, method) ==
    [diffuse_color |-> NodeColor(type),
     attributes |-> Merge(base,
        [k \in {"ReflectanceMethod", "SpecularHighlight"} |->
            IF k = "ReflectanceMethod" THEN method
            ELSE Some(Round3(NodeRoughness(o, type)))])]

\* lines 289-297 (second_input_node) and 357-363 (emission)
FlatAttributes(base, color) ==
    [diffuse_color |-> color,
     attributes |-> Merge(base,
        [k \in {"ReflectanceMethod", "SpecularHighlight"} |->
            IF k = "ReflectanceMethod" THEN "FLAT" ELSE None])]

\* lines 383-390: no supported node; DiffuseColour is the viewport colour
NotDefinedAttributes(o, base) ==
    [diffuse_color |-> o.diffuse_color,
     attributes |-> Merge(base,
        [k \in {"ReflectanceMethod", "SpecularHighlight"} |->
            IF k = "ReflectanceMethod" THEN "NOTDEFINED" ELSE None])]

\* line 278: the first rule is entered for any mix shader
MixShaderAtSurface(o) == o.surface # "NONE" /\ o.surface = "MIX_SHADER"

\* Style.get_surface_rendering_attributes
get_surface_rendering_attributes(o) ==
    LET viewport_color == color_to_ifc_format(o.diffuse_color)
        base == [k \in {"SurfaceColour", "Transparency"} |->
                    IF k = "SurfaceColour" THEN viewport_color
                    ELSE 1000 - o.diffuse_color[4]]
        bsdfs == o.linked
        \* lines 278-390: the branch taken, as the colour chosen and the attributes set
        branch ==
            IF MixShaderAtSurface(o)
            THEN IF FlatPattern(o)
                 THEN FlatAttributes(base, IF o.shader2 = "RGB" THEN RgbNodeColor
                                           ELSE o.panel_diffuse_color)
                 ELSE [diffuse_color |-> o.diffuse_color, attributes |-> base]
            ELSE IF PrincipledAtSurface(o) THEN PrincipledAttributes(o, base)
            ELSE IF "BSDF_GLOSSY" \in bsdfs THEN BsdfAttributes(o, base, "BSDF_GLOSSY", "METAL")
            ELSE IF "BSDF_DIFFUSE" \in bsdfs THEN BsdfAttributes(o, base, "BSDF_DIFFUSE", "MATT")
            ELSE IF "BSDF_GLASS" \in bsdfs THEN BsdfAttributes(o, base, "BSDF_GLASS", "GLASS")
            ELSE IF "EMISSION" \in bsdfs THEN FlatAttributes(base, NodeColor("EMISSION"))
            ELSE IF "BSDF_PRINCIPLED" \in bsdfs THEN PrincipledAttributes(o, base)
            ELSE NotDefinedAttributes(o, base)
    \* line 392 (line 389 in the last branch, which gives the same colour)
    IN  Merge(branch.attributes,
              [k \in {"DiffuseColour"} |-> color_to_ifc_format(branch.diffuse_color)])

\* the node types whose first output the links of the graph use
LinkedByGraph(surface, wiring) ==
    {surface, wiring.fac, wiring.shader1, wiring.shader2, wiring.add1} \ {"NONE"}

\* the wirings of the node at the Surface input: a mix shader's Fac and
\* shader inputs, an add shader's second input
Wirings(surface) ==
    [ fac : IF surface = "MIX_SHADER" THEN {"NONE", "LIGHT_PATH", "RGB"} ELSE {"NONE"},
      shader1 : IF surface = "MIX_SHADER"
                THEN {"NONE", "BSDF_TRANSPARENT", "BSDF_GLOSSY"} ELSE {"NONE"},
      shader2 : IF surface = "MIX_SHADER"
                THEN {"NONE", "RGB", "TEX_IMAGE", "BSDF_DIFFUSE"} ELSE {"NONE"},
      add1 : IF surface = "ADD_SHADER"
             THEN {"NONE", "BSDF_PRINCIPLED", "EMISSION"} ELSE {"NONE"} ]

\* a material: the node (or none) at the Surface input with its wiring, and
\* a set of further BSDFs linked somewhere in the graph
Material(ifc_schema, diffuse_color, surface, wiring, extra, roughness) ==
    [ ifc_schema |-> ifc_schema,
      diffuse_color |-> diffuse_color,
      panel_diffuse_color |-> PanelDiffuseColor,
      surface |-> surface,
      fac |-> wiring.fac, shader1 |-> wiring.shader1, shader2 |-> wiring.shader2,
      add1 |-> wiring.add1,
      linked |-> LinkedByGraph(surface, wiring) \cup extra,
      metallic |-> 5001,
      roughness |-> roughness,
      alpha |-> 800 ]

\* a call of tool.Style.get_surface_rendering_attributes(obj)
Classify ==
    /\ attributes = <<>>
    /\ attributes' = <<get_surface_rendering_attributes(obj)>>
    /\ UNCHANGED <<obj, doc, styledItems, catVars, geoVars, styleVars>>

\* ================================================================ style catalogue

\* The styles of the loaded file: entity i of the list has id i. A style has
\* an optional Name and a class; ids beyond the list are of deleted entities.
StyleNames == {None, Some(""), Some("Steel"), Some("Wood")}
StyleClasses == {"IfcSurfaceStyle", "IfcCurveStyle"}
StyleTypes == StyleClasses \cup {"IfcPresentationStyle"}
StyleEntities == [Name : StyleNames, is_a : StyleClasses]

\* the code points of the names in use
CodePoints(name) ==
    CASE name = "" -> <<>>
      [] name = "Steel" -> <<83, 116, 101, 101, 108>>
      [] name = "Unnamed" -> <<85, 110, 110, 97, 109, 101, 100>>
      [] name = "Wood" -> <<87, 111, 111, 100>>

\* a < b for sequences of code points, as Python compares strings
RECURSIVE CodesLess(_, _)
CodesLess(a, b) ==
    IF b = <<>> THEN FALSE
    ELSE IF a = <<>> THEN TRUE
    ELSE IF a[1] # b[1] THEN a[1] < b[1]
    ELSE CodesLess(Tail(a), Tail(b))

StrLess(a, b) == CodesLess(CodePoints(a), CodePoints(b))

\* (variant) styles without a name sort as the empty string
DisplayName_Empty(entity) == IF entity.Name = None THEN "" ELSE entity.Name[1]

\* lines 461 and 465: style.Name or "Unnamed"
DisplayName(entity) ==
    IF entity.Name = None \/ entity.Name = Some("") THEN "Unnamed" ELSE entity.Name[1]

\* file.by_id(id): the entity, or an error when there is no file or no such entity
by_id(id) ==
    IF ifcFile.loaded /\ id \in DOMAIN ifcFile.styles
    THEN [raised |-> FALSE, value |-> Some(id)]
    ELSE [raised |-> TRUE, value |-> None]

\* (variant) the lookup is not guarded
Guarded_Not(r) == r

\* lines 100-103: try: return ... except: return
Guarded(r) == IF r.raised THEN [raised |-> FALSE, value |-> None] ELSE r

\* Style.get_style
get_style ==
    IF ifc_style_id # 0 THEN Guarded(by_id(ifc_style_id))
    ELSE [raised |-> FALSE, value |-> None]

\* file.by_type(style_type): the entities of the class or of a subclass, by id
by_type(style_type) ==
    LET ids == {i \in DOMAIN ifcFile.styles :
                    style_type \in {ifcFile.styles[i].is_a, "IfcPresentationStyle"}}
        RECURSIVE Upto(_)
        Upto(n) == IF n = 0 THEN <<>>
                   ELSE IF n \in ids THEN Append(Upto(n - 1), n) ELSE Upto(n - 1)
    IN  Upto(Len(ifcFile.styles))

\* sorted(..., key=...): x goes after the elements whose key is not greater
RECURSIVE Insert(_, _)
Insert(sorted, x) ==
    IF sorted = <<>> THEN <<x>>
    ELSE IF StrLess(DisplayName(ifcFile.styles[x]), DisplayName(ifcFile.styles[sorted[1]]))
    THEN <<x>> \o sorted
    ELSE <<sorted[1]>> \o Insert(Tail(sorted), x)

RECURSIVE Sorted(_)
Sorted(ids) ==
    IF ids = <<>> THEN <<>>
    ELSE Insert(Sorted(SubSeq(ids, 1, Len(ids) - 1)), ids[Len(ids)])

\* lines 463-466: the entry added for a style
StyleEntry(id) ==
    [ifc_definition_id |-> id, name |-> DisplayName(ifcFile.styles[id]),
     ifc_class |-> ifcFile.styles[id].is_a]

\* Style.import_presentation_styles: the list after clear() and the loop
import_presentation_styles(style_type) ==
    LET styles == Sorted(by_type(style_type))
    IN  [i \in 1..Len(styles) |-> StyleEntry(styles[i])]

CatalogueAtRest ==
    /\ ifcFile = [loaded |-> FALSE, styles |-> <<>>]
    /\ ifc_style_id = 0
    /\ styleLookup = <<>>
    /\ uiStyles = <<>>
    /\ imported = <<>>

\* a call of tool.Style.get_style(obj)
GetStyle ==
    /\ styleLookup' = <<get_style>>
    /\ UNCHANGED <<ifcFile, ifc_style_id, uiStyles, imported>>
    /\ UNCHANGED <<obj, attributes, doc, styledItems, geoVars, styleVars>>

\* a call of tool.Style.import_presentation_styles(style_type)
ImportPresentationStyles(style_type) ==
    /\ ifcFile.loaded
    /\ uiStyles' = import_presentation_styles(style_type)
    /\ imported' = <<style_type>>
    /\ UNCHANGED <<ifcFile, ifc_style_id, styleLookup>>
    /\ UNCHANGED <<obj, attributes, doc, styledItems, geoVars, styleVars>>

\* ================================================================ styled items

\* The document around a style: the IfcStyledItem entities that refer to the
\* style itself (direct) and those that refer to an
\* IfcPresentationStyleAssignment wrapping it (wrapped), each given by its
\* Item (0: no Item); and the representation items 1..MaxItems, each a
\* geometry item or an IfcMappedItem with the Items of its mapped representation.
ItemIds == 1..MaxItems

\* item.is_a("IfcMappedItem")
IsMappedItem(d, item) == d.kind[item] = "IfcMappedItem"

StyledItemsOf(refs) == [i \in DOMAIN refs |-> [type |-> "IfcStyledItem", Item |-> refs[i]]]

\* ifc_file.get_inverse(style)
InverseOfStyle(d) ==
    StyledItemsOf(d.direct)
        \o (IF d.assignment
            THEN <<[type |-> "IfcPresentationStyleAssignment", Item |-> 0]>> ELSE <<>>)

\* ifc_file.get_inverse(inverse) of the IfcPresentationStyleAssignment
InverseOfAssignment(d) == StyledItemsOf(d.wrapped)

\* lines 530-533: what an Item adds to the result
ItemsOf(d, item) ==
    IF IsMappedItem(d, item) THEN d.mapped[item] ELSE <<item>>

\* lines 521-533: the worklist loop
RECURSIVE StyledItemsLoop(_, _, _)
StyledItemsLoop(d, inverses, items) ==
    IF inverses = <<>> THEN items
    ELSE LET inverse == inverses[Len(inverses)]
             rest == SubSeq(inverses, 1, Len(inverses) - 1)
         IN  IF inverse.type = "IfcPresentationStyleAssignment"
             THEN StyledItemsLoop(d, rest \o InverseOfAssignment(d), items)
             ELSE IF inverse.Item = 0
             THEN StyledItemsLoop(d, rest, items)
             ELSE StyledItemsLoop(d, rest, items \o ItemsOf(d, inverse.Item))

\* Style.get_styled_items
get_styled_items(d) == StyledItemsLoop(d, InverseOfStyle(d), <<>>)

ItemsAtRest ==
    /\ doc = [assignment |-> FALSE]
    /\ styledItems = <<>>

ShadeAtRest ==
    /\ obj = [ifc_schema |-> "IFC4"]
    /\ attributes = <<>>
    /\ ItemsAtRest
    /\ CatalogueAtRest

\* a call of tool.Style.get_styled_items(style)
GetStyledItems ==
    /\ styledItems = <<>>
    /\ styledItems' = <<get_styled_items(doc)>>
    /\ UNCHANGED <<doc, obj, attributes, catVars, geoVars, styleVars>>

\* ================================================================ specifications

\* The files a call can find: every sharing pattern of up to MaxContexts root
\* contexts over the directions the file starts with, with and without outside
\* referrers.
InitialDirections == << <<1, 0, 0>> >>

ContextSet == [TrueNorth : 0..Len(InitialDirections), dim : {2, 3}]

InitGeo ==
    /\ schema \in {"IFC2X3", "IFC4"}
    /\ \E n \in 0..MaxContexts : contexts \in [1..n -> ContextSet]
    /\ directions = InitialDirections
    /\ extRefs \in [DOMAIN InitialDirections -> {0, 1}]
    /\ IF schema = "IFC2X3"
       THEN /\ hasProject \in BOOLEAN
            /\ coordOps = <<>> /\ projCRS = <<>>
            /\ psetCRS \in {<<>>, <<[k \in {"Name"} |-> "A"]>>}
            /\ psetMap \in {<<>>, <<[k \in {"Eastings"} |-> 1]>>}
            /\ (~hasProject => psetCRS = <<>> /\ psetMap = <<>>)
       ELSE /\ hasProject = TRUE
            /\ \E n \in {0, MaxEntities} : coordOps = [i \in 1..n |-> [k \in CoordOpAttrs |-> 1]]
            /\ \E n \in {0, MaxEntities} : projCRS = [i \in 1..n |-> [k \in CrsAttrs |-> "A"]]
            /\ psetCRS = <<>> /\ psetMap = <<>>
    /\ lastCall = NoCall
    /\ writeLog = {}
    /\ StyleAtRest /\ ShadeAtRest

NextGeo ==
    \E co \in CoordOpInputs, crs \in CrsInputs, tn \in TrueNorthInputs :
        edit_georeferencing(co, crs, tn)

SpecGeo == InitGeo /\ [][NextGeo]_vars

InitStyle ==
    /\ \E b \in BOOLEAN : props = [DefaultProps EXCEPT !.update_graph = b]
    /\ \E ss \in SurfaceStyles :
         \/ style = [surface_style |-> ss.surface_style, data |-> ss.data,
                     texture_style |-> FALSE, Textures |-> <<>>]
         \/ \E n \in 0..MaxTextures : \E Textures \in [1..n -> TextureSet] :
              style = [surface_style |-> ss.surface_style, data |-> ss.data,
                       texture_style |-> TRUE, Textures |-> Textures]
    /\ styleOp = NoStyleOp
    /\ snap = NonDerived(DefaultProps)
    /\ GeoAtRest /\ ShadeAtRest

NextStyle == ImportStyle \/ ExportStyle \/ UserEdit

SpecStyle == InitStyle /\ [][NextStyle]_vars

InitShade ==
    /\ \E ifc_schema \in {"IFC4", "IFC4X3"}, diffuse_color \in ViewportColors,
          surface \in {"NONE", "MIX_SHADER", "ADD_SHADER"} \cup BsdfTypes,
          extra \in SUBSET BsdfTypes, roughness \in {2004, 2006} :
         \E wiring \in Wirings(surface) :
            obj = Material(ifc_schema, diffuse_color, surface, wiring, extra, roughness)
    /\ attributes = <<>>
    /\ GeoAtRest /\ StyleAtRest /\ ItemsAtRest /\ CatalogueAtRest

NextShade == Classify

SpecShade == InitShade /\ [][NextShade]_vars

\* The documents: up to MaxStyledItems styled items on the style and on its
\* assignment, over items that are geometry or mapped items; the Items of a
\* mapped representation are later items, geometry or again mapped.
MappedLists(item) ==
    {<<>>} \cup {<<j>> : j \in (item + 1)..MaxItems}
           \cup {<<j, k>> : j \in (item + 1)..MaxItems, k \in (item + 2)..MaxItems}

InitItems ==
    /\ \E n \in 0..MaxStyledItems, m \in 0..MaxStyledItems, assignment \in BOOLEAN :
       \E direct \in [1..n -> 0..MaxItems],
          wrapped \in [1..(IF assignment THEN m ELSE 0) -> 0..MaxItems],
          kind \in [ItemIds -> {"IfcFacetedBrep", "IfcMappedItem"}] :
       \E mapped \in [ItemIds -> UNION {MappedLists(i) : i \in ItemIds}] :
          /\ \A i \in ItemIds :
               IF kind[i] = "IfcMappedItem" THEN mapped[i] \in MappedLists(i)
               ELSE mapped[i] = <<>>
          /\ doc = [direct |-> direct, assignment |-> assignment, wrapped |-> wrapped,
                    kind |-> kind, mapped |-> mapped]
    /\ styledItems = <<>>
    /\ obj = [ifc_schema |-> "IFC4"] /\ attributes = <<>>
    /\ GeoAtRest /\ StyleAtRest /\ CatalogueAtRest

NextItems == GetStyledItems

SpecItems == InitItems /\ [][NextItems]_vars

\* The catalogues: a file with up to MaxStyles styles (or no file), a material
\* whose ifc_style_id is unset, resolves, or is the id of a deleted entity, and
\* a UI list that is empty or holds an entry of an earlier import.
InitCatalogue ==
    /\ \E n \in 0..MaxStyles : \E styles \in [1..n -> StyleEntities], loaded \in BOOLEAN :
          /\ (~loaded => n = 0)
          /\ ifcFile = [loaded |-> loaded, styles |-> styles]
    /\ ifc_style_id \in 0..(MaxStyles + 1)
    /\ styleLookup = <<>>
    /\ uiStyles \in {<<>>, <<[ifc_definition_id |-> MaxStyles + 1, name |-> "Zinc",
                              ifc_class |-> "IfcSurfaceStyle"]>>}
    /\ imported = <<>>
    /\ obj = [ifc_schema |-> "IFC4"] /\ attributes = <<>>
    /\ GeoAtRest /\ StyleAtRest /\ ItemsAtRest

NextCatalogue ==
    \/ GetStyle
    \/ \E style_type \in StyleTypes : ImportPresentationStyles(style_type)

SpecCatalogue == InitCatalogue /\ [][NextCatalogue]_vars

\* ================================================================ claims: georeference

fileVars == <<contexts, directions, coordOps, projCRS, psetCRS, psetMap>>

\* whether context i is the only entity referring to its TrueNorth direction
SoleReferrer(ctxs, i) ==
    ctxs[i].TrueNorth # 0 /\ InverseCount(ctxs, ctxs[i].TrueNorth) = 1

\* C2 (as stated): on an IFC2X3 file without an IfcProject every call of
\* edit_georeferencing, whatever its arguments, leaves the whole file as it
\* was and raises no error.
C2_NoProjectIsNoOp ==
    [][(schema = "IFC2X3" /\ ~hasProject)
        => (UNCHANGED fileVars /\ lastCall'.outcome = "ok")]_vars

\* C2 (amended): on an IFC2X3 file without an IfcProject no property set,
\* coordinate operation or projected CRS is created or changed; with an
\* absent or empty true_north the call changes nothing at all and raises no
\* error, while a non-empty true_north is still applied to the root contexts.
C2_NoProjectLeavesGeoreferencing ==
    [][(schema = "IFC2X3" /\ ~hasProject)
        => /\ UNCHANGED <<coordOps, projCRS, psetCRS, psetMap>>
           /\ (lastCall'.true_north.kind = "none"
                 => UNCHANGED <<contexts, directions>> /\ lastCall'.outcome = "ok")]_vars

\* C2 witness: a call on a project-less IFC2X3 file returned normally after
\* its true-north step created and wrote a direction.
C2_Witness ==
    /\ schema = "IFC2X3" /\ ~hasProject
    /\ lastCall.outcome = "ok" /\ lastCall.true_north.kind = "list"
    /\ Len(directions) > Len(InitialDirections)
    /\ \E i \in DOMAIN contexts : directions[contexts[i].TrueNorth] = <<0, 1, 0>>

\* C4: every DirectionRatios assignment of a call lands on a direction that
\* exactly one entity (the context being processed) refers to at that
\* moment, and a direction some non-context entity refers to keeps its ratios.
C4_NeverWritesSharedDirection ==
    [][/\ writeLog' \subseteq {1}
       /\ \A d \in DOMAIN directions :
            (d \in DOMAIN extRefs /\ extRefs[d] >= 1) => directions'[d] = directions[d]]_vars

\* C4 witness: a context whose TrueNorth was shared with an outside referrer
\* now points at a new, written direction and the shared one is as it was.
C4_Witness ==
    /\ writeLog = {1}
    /\ extRefs[1] = 1 /\ directions[1] = <<1, 0, 0>>
    /\ \E i \in DOMAIN contexts :
         /\ contexts[i].TrueNorth > Len(InitialDirections)
         /\ directions[contexts[i].TrueNorth] \in {<<0, 1>>, <<0, 1, 0>>}

\* the ratios the claim C5 expects for a context of dimension dim
C5_Expected(tn, dim) == IF dim = 2 THEN <<tn.xy[1], tn.xy[2]>> ELSE <<tn.xy[1], tn.xy[2], 0>>

\* C5: a call with a true_north (x, y) and empty mappings leaves the
\* coordinate operations and projected CRSs as they were and sets every root
\* context's TrueNorth ratios to (x, y) for dimension 2, else to (x, y, 0.0).
C5_OnlyTrueNorth ==
    [][(/\ lastCall'.true_north.kind # "none"
        /\ lastCall'.coordinate_operation = EmptyMap
        /\ lastCall'.projected_crs = EmptyMap)
        => /\ UNCHANGED <<coordOps, projCRS, psetCRS, psetMap>>
           /\ \A i \in DOMAIN contexts' :
                /\ contexts'[i].TrueNorth # 0
                /\ directions'[contexts'[i].TrueNorth]
                     = C5_Expected(lastCall'.true_north, contexts'[i].dim)]_vars

\* C6: when a call repeats the true_north of the call before it, every
\* context that is the only referrer of its TrueNorth keeps that reference,
\* and if all contexts are, no IfcDirection is created.
C6_RepeatedCallCreatesNoDirection ==
    [][lastCall'.repeated /\ lastCall'.true_north.kind # "none"
        => /\ \A i \in DOMAIN contexts :
                SoleReferrer(contexts, i) => contexts'[i].TrueNorth = contexts[i].TrueNorth
           /\ (\A i \in DOMAIN contexts : SoleReferrer(contexts, i))
                => Len(directions') = Len(directions)]_vars

\* C6 witness: a second call with the same list true_north has run on two
\* contexts, each the only referrer of a direction the first call created.
C6_Witness ==
    /\ lastCall.repeated /\ lastCall.true_north.kind = "list" /\ lastCall.outcome = "ok"
    /\ Len(contexts) = 2
    /\ \A i \in DOMAIN contexts :
         SoleReferrer(contexts, i) /\ contexts[i].TrueNorth > Len(InitialDirections)
    /\ Len(directions) = Len(InitialDirections) + 2

\* whether every value of the mapping is the property set's value
HoldsValues(pset, properties) ==
    \A k \in DOMAIN properties : k \in DOMAIN pset /\ pset[k] = properties[k]

\* C10 (as stated): after a call with non-empty mappings on an IFC2X3 file
\* that has an IfcProject, both property sets exist and hold the given values.
C10_PsetsExistAfterCall ==
    (/\ schema = "IFC2X3" /\ hasProject /\ lastCall.outcome = "ok"
     /\ lastCall.projected_crs # EmptyMap /\ lastCall.coordinate_operation # EmptyMap)
        => /\ psetCRS # <<>> /\ HoldsValues(psetCRS[1], lastCall.projected_crs)
           /\ psetMap # <<>> /\ HoldsValues(psetMap[1], lastCall.coordinate_operation)

\* C10 (amended): a call that returns normally on an IFC2X3 file with an
\* IfcProject edits each of the two property sets that exists, so that it
\* holds the given values and keeps its other properties; a property set
\* that is absent is not created and its mapping is dropped.
C10_EditsOnlyExistingPsets ==
    [][(schema = "IFC2X3" /\ hasProject /\ lastCall'.outcome = "ok")
        => /\ (psetCRS = <<>>) = (psetCRS' = <<>>)
           /\ (psetMap = <<>>) = (psetMap' = <<>>)
           /\ psetCRS # <<>> =>
                /\ HoldsValues(psetCRS'[1], lastCall'.projected_crs)
                /\ \A k \in DOMAIN psetCRS[1] \ DOMAIN lastCall'.projected_crs :
                     psetCRS'[1][k] = psetCRS[1][k]
           /\ psetMap # <<>> =>
                /\ HoldsValues(psetMap'[1], lastCall'.coordinate_operation)
                /\ \A k \in DOMAIN psetMap[1] \ DOMAIN lastCall'.coordinate_operation :
                     psetMap'[1][k] = psetMap[1][k]]_vars

\* C10 witness: a call with both mappings found ePSet_ProjectedCRS, which
\* now holds the given name, and no ePSet_MapConversion, which still is absent.
C10_Witness ==
    /\ schema = "IFC2X3" /\ hasProject /\ lastCall.outcome = "ok"
    /\ lastCall.projected_crs # EmptyMap /\ lastCall.coordinate_operation # EmptyMap
    /\ psetCRS # <<>> /\ psetCRS[1]["Name"] = "B"
    /\ psetMap = <<>>

\* ================================================================ claims: style panel

\* C3: every call of set_surface_style_props, also one that ends in an
\* exception part-way through the bulk update, leaves update_graph at the
\* value it had before the call.
C3_FlagRestoredOnEveryExit ==
    [][styleOp'.name = "set_surface_style_props"
        => props'.update_graph = props.update_graph]_vars

\* C8: when the mappings exported from the panel are applied back through
\* set_surface_style_props, uv_mode, every null flag and every class selector
\* are what they were before the export.
C8_ExportImportRoundTrip ==
    styleOp.roundTrip => NonDerived(props) = snap

\* the uv mode C9 expects: that of texture i of the style, "UV" without one
C9_Expected(i) ==
    IF style.texture_style /\ style.Textures # <<>> /\ style.Textures[i].uv_mode # ""
    THEN style.Textures[i].uv_mode
    ELSE "UV"

\* C9 (as stated): after a call of set_surface_style_props that returned,
\* uv_mode is the mode derived from the first texture of the style, and "UV"
\* when there is no texture or that mode is empty.
C9_UvModeOfFirstTexture ==
    (styleOp.name = "set_surface_style_props" /\ ~styleOp.raised)
        => props.uv_mode = C9_Expected(1)

\* C9 (amended): after a call of set_surface_style_props that returned,
\* uv_mode is the mode derived from the last texture of the style, and "UV"
\* when there is no texture or that mode is empty.
C9_UvModeOfLastTexture ==
    (styleOp.name = "set_surface_style_props" /\ ~styleOp.raised)
        => props.uv_mode = C9_Expected(Len(style.Textures))

\* C9 witness: a style whose two textures derive different modes was
\* imported, and the panel shows the second one's.
C9_Witness ==
    /\ styleOp.name = "set_surface_style_props" /\ ~styleOp.raised
    /\ style.texture_style /\ Len(style.Textures) = 2
    /\ style.Textures[1].uv_mode = "UV" /\ style.Textures[2].uv_mode = "Generated"
    /\ props.uv_mode = "Generated"

\* ================================================================ claims: shading classifier

ReflectanceMethods == {"NOTDEFINED", "PHYSICAL", "FLAT", "METAL", "MATT", "GLASS"}

\* C1: whatever node feeds the Surface input, the record the classifier
\* returns has a ReflectanceMethod key holding one of the six methods.
C1_ReflectanceMethodAlwaysPresent ==
    attributes # <<>>
        => /\ "ReflectanceMethod" \in DOMAIN attributes[1]
           /\ attributes[1]["ReflectanceMethod"] \in ReflectanceMethods

\* ================================================================ claims: styled items

\* the elements of a list
Range(seq) == {seq[i] : i \in DOMAIN seq}

\* the Items of the styled items reached from the style, directly or through
\* its assignment
C7_ReachedItems == (Range(doc.direct) \cup Range(doc.wrapped)) \ {0}

\* C7: get_styled_items returns the Item of each reached styled item, or the
\* Items of its mapped representation when the Item is an IfcMappedItem; a
\* styled item without Item adds nothing; no IfcMappedItem is in the result.
C7_OnlyConcreteItems ==
    styledItems # <<>>
        => /\ Range(styledItems[1])
                = UNION { IF IsMappedItem(doc, item) THEN Range(doc.mapped[item]) ELSE {item}
                          : item \in C7_ReachedItems }
           /\ \A item \in Range(styledItems[1]) : ~IsMappedItem(doc, item)

\* ================================================================ claims: georeference, continued

\* entity e after a partial update with the mapping: the named attributes hold
\* the given values, the others their old ones
PartiallyUpdated(before, after, settings) ==
    /\ DOMAIN after = DOMAIN before
    /\ \A k \in DOMAIN before :
         after[k] = IF k \in DOMAIN settings THEN settings[k] ELSE before[k]

\* the entities of a list after the first are the same as before
OthersUnchanged(before, after) ==
    /\ Len(after) = Len(before)
    /\ \A i \in 2..Len(before) : after[i] = before[i]

\* C11: on a non-IFC2X3 file a call that returns normally assigns on the first
\* IfcCoordinateOperation exactly the attributes named in coordinate_operation
\* and on the first IfcProjectedCRS exactly those named in projected_crs, each
\* to the given value; the attributes not named and all other coordinate
\* operations and CRS entities keep their values (and a call that raises
\* assigns none of them).
C11_PartialUpdate ==
    [][ schema # "IFC2X3" =>
          IF lastCall'.outcome = "ok"
          THEN /\ PartiallyUpdated(coordOps[1], coordOps'[1], lastCall'.coordinate_operation)
               /\ PartiallyUpdated(projCRS[1], projCRS'[1], lastCall'.projected_crs)
               /\ OthersUnchanged(coordOps, coordOps')
               /\ OthersUnchanged(projCRS, projCRS')
          ELSE coordOps' = coordOps /\ projCRS' = projCRS ]_vars

\* a call that named Eastings only: the first coordinate operation holds it,
\* its Scale and the second coordinate operation hold their old values
C11_Witness ==
    /\ schema # "IFC2X3" /\ lastCall.outcome = "ok"
    /\ DOMAIN lastCall.coordinate_operation = {"Eastings"}
    /\ lastCall.projected_crs = EmptyMap
    /\ Len(coordOps) >= 2
    /\ coordOps[1]["Eastings"] = 2 /\ coordOps[1]["Scale"] = 1
    /\ coordOps[2]["Eastings"] = 1

\* ================================================================ claims: style catalogue

\* C12: get_style never raises; it returns the entity when ifc_style_id is set
\* and resolves in the document, and None when ifc_style_id is unset (0) or
\* refers to an entity that no longer exists.
C12_GetStyleNeverRaises ==
    styleLookup # <<>> =>
        /\ ~styleLookup[1].raised
        /\ styleLookup[1].value =
              IF ifc_style_id # 0 /\ ifcFile.loaded /\ ifc_style_id \in DOMAIN ifcFile.styles
              THEN Some(ifc_style_id) ELSE None

\* get_style was called with the id of a deleted style and returned None
C12_Witness ==
    /\ styleLookup # <<>>
    /\ ifcFile.loaded /\ ifcFile.styles # <<>>
    /\ ifc_style_id # 0 /\ ifc_style_id \notin DOMAIN ifcFile.styles
    /\ styleLookup[1] = [raised |-> FALSE, value |-> None]

\* the ids of the document's styles of the imported type
C13_Matching ==
    {i \in DOMAIN ifcFile.styles :
        imported[1] \in {ifcFile.styles[i].is_a, "IfcPresentationStyle"}}

\* C13: after import_presentation_styles(style_type) the UI list holds exactly
\* one entry per style of that type and nothing else, each entry's name is the
\* style's Name, or "Unnamed" when the Name is empty, and the names are in
\* non-decreasing order.
C13_CatalogueSortedByDisplayName ==
    imported # <<>> =>
        /\ Len(uiStyles) = Cardinality(C13_Matching)
        /\ {uiStyles[i].ifc_definition_id : i \in DOMAIN uiStyles} = C13_Matching
        /\ \A i \in DOMAIN uiStyles :
             LET Name == ifcFile.styles[uiStyles[i].ifc_definition_id].Name
             IN  uiStyles[i].name = IF Name \in {None, Some("")} THEN "Unnamed" ELSE Name[1]
        /\ \A i, j \in DOMAIN uiStyles :
             i < j => ~StrLess(uiStyles[j].name, uiStyles[i].name)

\* an import that had to reorder: an unnamed style between two named ones, the
\* first entry a later entity of the file than the second
C13_Witness ==
    /\ imported # <<>>
    /\ Len(uiStyles) = 3
    /\ uiStyles[1].name = "Steel" /\ uiStyles[2].name = "Unnamed" /\ uiStyles[3].name = "Wood"
    /\ ifcFile.styles[uiStyles[2].ifc_definition_id].Name = None
    /\ uiStyles[1].ifc_definition_id > uiStyles[2].ifc_definition_id

\* ================================================================ claims: shading classifier, continued

\* the viewport colour without its alpha, as the record holds a colour
ViewportRgb == [Name |-> "None", Red |-> obj.diffuse_color[1],
                Green |-> obj.diffuse_color[2], Blue |-> obj.diffuse_color[3]]

\* the Surface input is fed by a principled BSDF or by an add-shader whose
\* second input comes from one
PrincipledFeedsSurface ==
    \/ obj.surface = "BSDF_PRINCIPLED"
    \/ obj.surface = "ADD_SHADER" /\ obj.add1 = "BSDF_PRINCIPLED"

\* C14: with a principled BSDF (or an add-shader over one) at the Surface
\* input the record holds ReflectanceMethod PHYSICAL on IFC4X3 and NOTDEFINED
\* otherwise, DiffuseColour = the base colour, SpecularColour = metallic and
\* SpecularHighlight = roughness, both rounded to 3 decimals, Transparency =
\* 1 - alpha of the BSDF, and SurfaceColour = the viewport RGB.
C14_PrincipledAtSurface ==
    attributes # <<>> /\ PrincipledFeedsSurface =>
        attributes[1] =
            [k \in {"ReflectanceMethod", "DiffuseColour", "SpecularColour",
                    "SpecularHighlight", "Transparency", "SurfaceColour"} |->
                CASE k = "ReflectanceMethod" ->
                        IF obj.ifc_schema = "IFC4X3" THEN "PHYSICAL" ELSE "NOTDEFINED"
                  [] k = "DiffuseColour" ->
                        [Name |-> "None", Red |-> 1000, Green |-> 0, Blue |-> 1000]
                  \* metallic 0.5001 -> 0.5
                  [] k = "SpecularColour" -> 500
                  \* roughness 0.2004 -> 0.2, 0.2006 -> 0.201
                  [] k = "SpecularHighlight" ->
                        IF obj.roughness = 2004 THEN <<200>> ELSE <<201>>
                  \* alpha 0.8 -> 0.2
                  [] k = "Transparency" -> 200
                  [] k = "SurfaceColour" -> ViewportRgb]

\* an add-shader over a principled BSDF on IFC4X3, a glossy BSDF elsewhere in
\* the graph and a viewport alpha that gives another transparency
C14_Witness ==
    /\ attributes # <<>>
    /\ obj.surface = "ADD_SHADER" /\ obj.add1 = "BSDF_PRINCIPLED"
    /\ obj.ifc_schema = "IFC4X3"
    /\ "BSDF_GLOSSY" \in obj.linked
    /\ 1000 - obj.diffuse_color[4] # 200
    /\ obj.roughness = 2006
    /\ attributes[1]["ReflectanceMethod"] = "PHYSICAL"
    /\ attributes[1]["Transparency"] = 200

\* the Surface input is fed by a mix shader that is not the FLAT pattern
C16_UnmatchedMixShader ==
    /\ obj.surface = "MIX_SHADER"
    /\ ~(/\ obj.fac = "LIGHT_PATH"
         /\ obj.shader1 = "BSDF_TRANSPARENT"
         /\ obj.shader2 \in {"RGB", "TEX_IMAGE"})

\* C16: when the mix shader at the Surface input does not satisfy the FLAT
\* pattern, classification continues with the later rules: a linked glossy
\* BSDF gives METAL, and a graph with no recognised node gives NOTDEFINED with
\* DiffuseColour = the viewport colour and SpecularHighlight = null.
C16_UnmatchedMixShaderFallsThrough ==
    attributes # <<>> /\ C16_UnmatchedMixShader =>
        /\ "ReflectanceMethod" \in DOMAIN attributes[1]
        /\ "BSDF_GLOSSY" \in obj.linked => attributes[1]["ReflectanceMethod"] = "METAL"
        /\ obj.linked \cap BsdfTypes = {} =>
             /\ attributes[1]["ReflectanceMethod"] = "NOTDEFINED"
             /\ attributes[1]["DiffuseColour"] = ViewportRgb
             /\ "SpecularHighlight" \in DOMAIN attributes[1]
             /\ attributes[1]["SpecularHighlight"] = None

\* the Surface input is fed by neither a mix shader nor a principled BSDF /
\* add-shader over one
C17_ScanDecides == obj.surface # "MIX_SHADER" /\ ~PrincipledFeedsSurface

\* the linked node type of the highest priority
C17_Chosen ==
    CASE "BSDF_GLOSSY" \in obj.linked -> "BSDF_GLOSSY"
      [] "BSDF_GLOSSY" \notin obj.linked /\ "BSDF_DIFFUSE" \in obj.linked -> "BSDF_DIFFUSE"
      [] {"BSDF_GLOSSY", "BSDF_DIFFUSE"} \cap obj.linked = {} /\ "BSDF_GLASS" \in obj.linked
            -> "BSDF_GLASS"
      [] {"BSDF_GLOSSY", "BSDF_DIFFUSE", "BSDF_GLASS"} \cap obj.linked = {}
            /\ "EMISSION" \in obj.linked -> "EMISSION"
      [] OTHER -> "BSDF_PRINCIPLED"

\* C17: when the scan of the linked node types decides, the method is METAL
\* for glossy, MATT for diffuse, GLASS for glass, FLAT for emission and
\* NOTDEFINED/PHYSICAL for principled, a type deciding only when no type
\* before it is linked; DiffuseColour is the chosen node's colour and
\* SpecularHighlight its roughness rounded to 3 decimals, null for emission.
C17_PriorityOfLinkedNodes ==
    attributes # <<>> /\ C17_ScanDecides /\ obj.linked \cap BsdfTypes # {} =>
        /\ attributes[1]["ReflectanceMethod"] =
              CASE C17_Chosen = "BSDF_GLOSSY" -> "METAL"
                [] C17_Chosen = "BSDF_DIFFUSE" -> "MATT"
                [] C17_Chosen = "BSDF_GLASS" -> "GLASS"
                [] C17_Chosen = "EMISSION" -> "FLAT"
                [] C17_Chosen = "BSDF_PRINCIPLED" ->
                      IF obj.ifc_schema = "IFC4X3" THEN "PHYSICAL" ELSE "NOTDEFINED"
        /\ attributes[1]["DiffuseColour"] =
              [Name |-> "None", Red |-> NodeColor(C17_Chosen)[1],
               Green |-> NodeColor(C17_Chosen)[2], Blue |-> NodeColor(C17_Chosen)[3]]
        /\ attributes[1]["SpecularHighlight"] =
              CASE C17_Chosen = "BSDF_GLOSSY" -> <<100>>     \* 0.1004
                [] C17_Chosen = "BSDF_DIFFUSE" -> <<301>>    \* 0.3006
                [] C17_Chosen = "BSDF_GLASS" -> <<700>>      \* 0.7001
                [] C17_Chosen = "EMISSION" -> None
                [] C17_Chosen = "BSDF_PRINCIPLED" ->
                      IF obj.roughness = 2004 THEN <<200>> ELSE <<201>>

\* nothing feeds the Surface input, glass and emission and principled nodes
\* are linked elsewhere: glass decides
C17_Witness ==
    /\ attributes # <<>>
    /\ obj.surface = "NONE"
    /\ obj.linked = {"BSDF_GLASS", "EMISSION", "BSDF_PRINCIPLED"}
    /\ attributes[1]["ReflectanceMethod"] = "GLASS"
    /\ attributes[1]["SpecularHighlight"] = <<700>>

\* ================================================================ claims: true north and missing entities

\* C15: a call with true_north absent or empty skips the true-north step: no
\* IfcDirection is created, no context's TrueNorth reference changes and no
\* DirectionRatios changes, whatever contexts exist and however they share
\* directions.
C15_EmptyTrueNorthSkipsStep ==
    [][lastCall'.true_north.kind = "none" => UNCHANGED <<contexts, directions>>]_vars

\* a call without true_north that did edit the coordinate operation, on two
\* contexts sharing the direction the file started with
C15_Witness ==
    /\ lastCall.outcome = "ok" /\ lastCall.true_north.kind = "none"
    /\ lastCall.coordinate_operation # EmptyMap
    /\ coordOps # <<>> /\ coordOps[1]["Eastings"] = 2
    /\ Len(contexts) = 2
    /\ contexts[1].TrueNorth = 1 /\ contexts[2].TrueNorth = 1
    /\ directions = InitialDirections

\* C19: on a non-IFC2X3 file without an IfcCoordinateOperation or without an
\* IfcProjectedCRS every call ends in an error, whatever its arguments, and
\* assigns no coordinate-operation or CRS attribute; the true-north step has
\* run before: when the error is the missing entity, every root context is the
\* only referrer of a TrueNorth that holds the new ratios.
C19_ErrorKeepsTrueNorthChanges ==
    [][(schema # "IFC2X3" /\ (coordOps = <<>> \/ projCRS = <<>>))
        => /\ lastCall'.outcome \in {"IndexError", "TypeError"}
           /\ UNCHANGED <<coordOps, projCRS>>
           /\ (lastCall'.outcome = "IndexError" /\ lastCall'.true_north.kind # "none")
                => \A i \in DOMAIN contexts' :
                      /\ SoleReferrer(contexts', i)
                      /\ directions'[contexts'[i].TrueNorth]
                           = C5_Expected(lastCall'.true_north, contexts'[i].dim)]_vars

\* a call with empty mappings and a true_north ended in IndexError on a file
\* without coordinate operation, and the direction it created and wrote is there
C19_Witness ==
    /\ schema # "IFC2X3" /\ coordOps = <<>>
    /\ lastCall.outcome = "IndexError"
    /\ lastCall.coordinate_operation = EmptyMap /\ lastCall.projected_crs = EmptyMap
    /\ lastCall.true_north.kind = "list"
    /\ Len(directions) > Len(InitialDirections)
    /\ \E i \in DOMAIN contexts :
         /\ contexts[i].TrueNorth > Len(InitialDirections)
         /\ directions[contexts[i].TrueNorth] = <<0, 1, 0>>

\* ================================================================ claims: style panel, continued

\* C18: in a set_surface_style_props call that completes normally
\* update_graph is False at every write of the call (the fields, the texture
\* list, uv_mode) and holds its value of before the call when the call has
\* ended; so completed calls never change the flag.
C18_UpdatesSuspendedDuringCall ==
    [][(styleOp'.name = "set_surface_style_props" /\ ~styleOp'.raised)
        => /\ styleOp'.flags = {FALSE}
           /\ props'.update_graph = props.update_graph]_vars

\* a completed call that filled the texture list, on a panel whose flag was
\* and is True
C18_Witness ==
    /\ styleOp.name = "set_surface_style_props" /\ ~styleOp.raised
    /\ styleOp.flags = {FALSE}
    /\ props.update_graph = TRUE
    /\ Len(props.textures) >= 1
    /\ props.uv_mode = "Generated"

====
